---- MODULE Spec2Model ----
(***************************************************************************)
(* Model of app.py, the OCR evaluation visualiser:                         *)
(*   - create_highlighted_diff (app.py 24-38), together with the part of   *)
(*     difflib.SequenceMatcher it calls (get_opcodes and what that uses);  *)
(*   - load_data (app.py 42-68) and the part of main (app.py 97-148) that  *)
(*     selects a language and a record.                                    *)
(* A text is a sequence of one-character strings.  Index ranges keep       *)
(* Python's convention: 0-based, half open, so s[j1:j2] is                 *)
(* SubSeq(s, j1 + 1, j2).                                                  *)
(***************************************************************************)
EXTENDS Integers, Sequences, FiniteSets, TLC

VARIABLES
    \* create_highlighted_diff
    text1,          \* first argument ("before")
    text2,          \* second argument ("after")
    pc,             \* position in create_highlighted_diff
    opcodes,        \* sm.get_opcodes(), the list the for loop runs over
    k,              \* number of opcodes the loop has consumed
    output_html,    \* the list output_html of markup chunks
    spans,          \* history: for every append, its class, text and opcode
    result,         \* the returned string "".join(output_html)
    \* load_data and main
    json_file,      \* primary source: is the file present, and its entries
    csv_file,       \* auxiliary source: is the file present, and its rows
    lpc,            \* position in main / load_data
    idx,            \* number of entries of json_data the loop has consumed
    corr_mod_map,   \* the dict corr_mod_map
    data_by_lang,   \* the dict data_by_lang
    all_data,       \* what load_data returned to main (None or a dict)
    selected,       \* selected_lang_code, once the sidebar selector has run
    log             \* messages shown with st.error / st.warning / st.selectbox

dvars == <<text1, text2, pc, opcodes, k, output_html, spans, result>>
lvars == <<json_file, csv_file, lpc, idx, corr_mod_map, data_by_lang,
           all_data, selected, log>>
vars == <<dvars, lvars>>

(***************************************************************************)
(* Bounds of the model.                                                    *)
(***************************************************************************)
MaxLen == 3

Alphabet == {"a", "b", "<"}

RECURSIVE StringsUpTo(_)
StringsUpTo(n) ==
    IF n = 0 THEN {<<>>}
    ELSE LET S == StringsUpTo(n - 1)
         IN  S \cup {Append(s, c) : s \in {t \in S : Len(t) = n - 1}, c \in Alphabet}

ShortTexts == StringsUpTo(MaxLen)

(***************************************************************************)
(* Sequence helpers.                                                       *)
(***************************************************************************)
Slice(s, lo, hi) == SubSeq(s, lo + 1, hi)

\* dict.get(key, default)
DictGet(d, key, default) == IF key \in DOMAIN d THEN d[key] ELSE default

\* d[key] = value
DictSet(d, key, value) == [x \in DOMAIN d \cup {key} |-> IF x = key THEN value ELSE d[x]]

RECURSIVE Join(_)
Join(chunks) ==
    IF chunks = <<>> THEN <<>> ELSE Head(chunks) \o Join(Tail(chunks))

(***************************************************************************)
(* html.escape(s) with quote=True: & < > " ' are replaced.                 *)
(***************************************************************************)
EscapeChar(c) ==
    CASE c = "&"  -> <<"&", "a", "m", "p", ";">>
      [] c = "<"  -> <<"&", "l", "t", ";">>
      [] c = ">"  -> <<"&", "g", "t", ";">>
      [] c = "\"" -> <<"&", "q", "u", "o", "t", ";">>
      [] c = "'"  -> <<"&", "#", "x", "2", "7", ";">>
      [] OTHER    -> <<c>>

RECURSIVE Escape(_)
Escape(s) ==
    IF s = <<>> THEN <<>> ELSE EscapeChar(Head(s)) \o Escape(Tail(s))

MarkOpen == <<"<", "m", "a", "r", "k", ">">>
MarkClose == <<"<", "/", "m", "a", "r", "k", ">">>

(***************************************************************************)
(* difflib.SequenceMatcher(None, a, b): isjunk is None, autojunk is True.  *)
(***************************************************************************)
\* __chain_b: the length of b from which the autojunk heuristic applies (the
\* texts checked here are shorter, so none of their elements is popular)
AutoJunkMin == 200

Count(b, elt) == Cardinality({j \in 1..Len(b) : b[j] = elt})

\* __chain_b: an element is popular, and dropped from b2j, when b has at
\* least 200 elements and the element occurs more than len(b) // 100 + 1 times
Popular(b, elt) ==
    /\ Len(b) >= AutoJunkMin
    /\ Count(b, elt) > (Len(b) \div 100) + 1

\* b2j.get(elt, nothing): the 0-based indices of elt in b, in increasing order
B2J(b, elt) ==
    IF Popular(b, elt) THEN <<>>
    ELSE SelectSeq([n \in 1..Len(b) |-> n - 1], LAMBDA j : b[j + 1] = elt)

\* the dicts j2len and newj2len as rows over the indices of b: entry j + 1 is
\* the value stored under j, and 0 where the dict has no key j (every stored
\* value is at least 1, and the code reads the dict with j2len.get(j - 1, 0))
EmptyRow(b) == [n \in 1..Len(b) |-> 0]

J2LenGet(j2len, j) == IF j >= 0 THEN j2len[j + 1] ELSE 0

\* the inner loop of find_longest_match at row i, over the indices js still to
\* visit; st is <<newj2len, best>> and best is <<besti, bestj, bestsize>>
RECURSIVE ScanCols(_, _, _, _, _, _)
ScanCols(js, blo, bhi, i, j2len, st) ==
    IF js = <<>> THEN st
    ELSE LET j == Head(js)
         IN  IF j < blo THEN ScanCols(Tail(js), blo, bhi, i, j2len, st)
             ELSE IF j >= bhi THEN st
             ELSE LET kk == J2LenGet(j2len, j - 1) + 1
                      best == IF kk > st[2][3]
                              THEN <<i - kk + 1, j - kk + 1, kk>> ELSE st[2]
                  IN  ScanCols(Tail(js), blo, bhi, i, j2len,
                               <<[st[1] EXCEPT ![j + 1] = kk], best>>)

\* the outer loop of find_longest_match over i in range(alo, ahi).  bestsize
\* never decreases, so the test always succeeds: it makes TLC evaluate a row
\* before the next one is scanned, as the loop does.
RECURSIVE ScanBest(_, _, _, _, _, _, _, _)
ScanBest(a, b, ahi, blo, bhi, i, j2len, best) ==
    IF i >= ahi THEN best
    ELSE LET st == ScanCols(B2J(b, a[i + 1]), blo, bhi, i, j2len, <<EmptyRow(b), best>>)
         IN  IF st[2][3] >= best[3]
             THEN ScanBest(a, b, ahi, blo, bhi, i + 1, st[1], st[2])
             ELSE best

\* mutant of ExtendLeft: the comparison a[besti-1] == b[bestj-1] is lost
RECURSIVE ExtendLeft_NoCompare(_, _, _, _, _)
ExtendLeft_NoCompare(a, b, alo, blo, m) ==
    IF m[1] > alo /\ m[2] > blo
    THEN ExtendLeft_NoCompare(a, b, alo, blo, <<m[1] - 1, m[2] - 1, m[3] + 1>>)
    ELSE m

\* first extension loop of find_longest_match (no element is junk)
RECURSIVE ExtendLeft(_, _, _, _, _)
ExtendLeft(a, b, alo, blo, m) ==
    IF m[1] > alo /\ m[2] > blo /\ a[m[1]] = b[m[2]]
    THEN ExtendLeft(a, b, alo, blo, <<m[1] - 1, m[2] - 1, m[3] + 1>>)
    ELSE m

\* mutant of ExtendRight: the comparison of the next elements is lost
RECURSIVE ExtendRight_NoCompare(_, _, _, _, _)
ExtendRight_NoCompare(a, b, ahi, bhi, m) ==
    IF m[1] + m[3] < ahi /\ m[2] + m[3] < bhi
    THEN ExtendRight_NoCompare(a, b, ahi, bhi, <<m[1], m[2], m[3] + 1>>)
    ELSE m

\* second extension loop of find_longest_match
RECURSIVE ExtendRight(_, _, _, _, _)
ExtendRight(a, b, ahi, bhi, m) ==
    IF m[1] + m[3] < ahi /\ m[2] + m[3] < bhi
       /\ a[m[1] + m[3] + 1] = b[m[2] + m[3] + 1]
    THEN ExtendRight(a, b, ahi, bhi, <<m[1], m[2], m[3] + 1>>)
    ELSE m

find_longest_match(a, b, alo, ahi, blo, bhi) ==
    LET scanned == ScanBest(a, b, ahi, blo, bhi, alo, EmptyRow(b), <<alo, blo, 0>>)
    IN  ExtendRight(a, b, ahi, bhi, ExtendLeft(a, b, alo, blo, scanned))

\* the queue loop of get_matching_blocks followed by matching_blocks.sort():
\* the block found in a window, the blocks of the window to its left before it
\* and those of the window to its right after it
RECURSIVE BlocksIn(_, _, _, _, _, _)
BlocksIn(a, b, alo, ahi, blo, bhi) ==
    LET x == find_longest_match(a, b, alo, ahi, blo, bhi)
    IN  IF x[3] = 0 THEN <<>>
        ELSE (IF alo < x[1] /\ blo < x[2]
              THEN BlocksIn(a, b, alo, x[1], blo, x[2]) ELSE <<>>)
             \o <<x>>
             \o (IF x[1] + x[3] < ahi /\ x[2] + x[3] < bhi
                 THEN BlocksIn(a, b, x[1] + x[3], ahi, x[2] + x[3], bhi) ELSE <<>>)

\* the loop of get_matching_blocks that collapses adjacent blocks; cur is
\* (i1, j1, k1)
RECURSIVE Collapse(_, _, _)
Collapse(blocks, cur, acc) ==
    IF blocks = <<>>
    THEN IF cur[3] # 0 THEN Append(acc, cur) ELSE acc
    ELSE LET x == Head(blocks)
         IN  IF cur[1] + cur[3] = x[1] /\ cur[2] + cur[3] = x[2]
             THEN Collapse(Tail(blocks), <<cur[1], cur[2], cur[3] + x[3]>>, acc)
             ELSE Collapse(Tail(blocks), x,
                           IF cur[3] # 0 THEN Append(acc, cur) ELSE acc)

get_matching_blocks(a, b) ==
    Append(Collapse(BlocksIn(a, b, 0, Len(a), 0, Len(b)), <<0, 0, 0>>, <<>>),
           <<Len(a), Len(b), 0>>)

Op(tag, i1, i2, j1, j2) == [tag |-> tag, i1 |-> i1, i2 |-> i2, j1 |-> j1, j2 |-> j2]

\* mutant of OpcodesFrom: the test "if size" is lost, so the closing dummy block
\* yields an empty equal operation
RECURSIVE OpcodesFrom_NoSizeTest(_, _, _, _)
OpcodesFrom_NoSizeTest(blocks, i, j, answer) ==
    IF blocks = <<>> THEN answer
    ELSE LET ai == Head(blocks)[1]
             bj == Head(blocks)[2]
             size == Head(blocks)[3]
             tag == IF i < ai /\ j < bj THEN "replace"
                    ELSE IF i < ai THEN "delete"
                    ELSE IF j < bj THEN "insert"
                    ELSE ""
             a1 == IF tag # "" THEN Append(answer, Op(tag, i, ai, j, bj)) ELSE answer
             a2 == Append(a1, Op("equal", ai, ai + size, bj, bj + size))
         IN  OpcodesFrom_NoSizeTest(Tail(blocks), ai + size, bj + size, a2)

\* mutant of OpcodesFrom: the tags of insert and delete are exchanged
RECURSIVE OpcodesFrom_SwapTags(_, _, _, _)
OpcodesFrom_SwapTags(blocks, i, j, answer) ==
    IF blocks = <<>> THEN answer
    ELSE LET ai == Head(blocks)[1]
             bj == Head(blocks)[2]
             size == Head(blocks)[3]
             tag == IF i < ai /\ j < bj THEN "replace"
                    ELSE IF i < ai THEN "insert"
                    ELSE IF j < bj THEN "delete"
                    ELSE ""
             a1 == IF tag # "" THEN Append(answer, Op(tag, i, ai, j, bj)) ELSE answer
             a2 == IF size # 0
                   THEN Append(a1, Op("equal", ai, ai + size, bj, bj + size))
                   ELSE a1
         IN  OpcodesFrom_SwapTags(Tail(blocks), ai + size, bj + size, a2)

\* the loop of get_opcodes over the matching blocks; i, j are the loop's i, j
RECURSIVE OpcodesFrom(_, _, _, _)
OpcodesFrom(blocks, i, j, answer) ==
    IF blocks = <<>> THEN answer
    ELSE LET ai == Head(blocks)[1]
             bj == Head(blocks)[2]
             size == Head(blocks)[3]
             tag == IF i < ai /\ j < bj THEN "replace"
                    ELSE IF i < ai THEN "delete"
                    ELSE IF j < bj THEN "insert"
                    ELSE ""
             a1 == IF tag # "" THEN Append(answer, Op(tag, i, ai, j, bj)) ELSE answer
             a2 == IF size # 0
                   THEN Append(a1, Op("equal", ai, ai + size, bj, bj + size))
                   ELSE a1
         IN  OpcodesFrom(Tail(blocks), ai + size, bj + size, a2)

get_opcodes(a, b) == OpcodesFrom(get_matching_blocks(a, b), 0, 0, <<>>)

(***************************************************************************)
(* Inputs of create_highlighted_diff.                                      *)
(***************************************************************************)
Helo == <<"h", "e", "l", "o", " ", "w", "o", "r", "l", "d">>
Hello == <<"h", "e", "l", "l", "o", " ", "w", "o", "r", "l", "d">>
MarkText == <<"a">> \o MarkOpen \o <<"&", "\"", "'">> \o MarkClose

ScenarioPairs ==
    { <<Helo, Hello>>, <<Hello, Helo>>,
      <<MarkText, MarkText>>, <<<<>>, MarkText>>, <<MarkOpen, MarkText>>,
      <<MarkText, MarkClose \o MarkOpen>> }

DiffInputs == (ShortTexts \X ShortTexts) \cup ScenarioPairs

NoFile == [present |-> FALSE, rows |-> <<>>]
Unset == [set |-> FALSE, none |-> FALSE, dict |-> <<>>]
NoSelection == [set |-> FALSE, code |-> <<>>]

LoadIdle ==
    /\ json_file = NoFile
    /\ csv_file = NoFile
    /\ lpc = "idle"
    /\ idx = 0
    /\ corr_mod_map = <<>>
    /\ data_by_lang = <<>>
    /\ all_data = Unset
    /\ selected = NoSelection
    /\ log = <<>>

InitDiff ==
    /\ \E p \in DiffInputs : text1 = p[1] /\ text2 = p[2]
    /\ pc = "call"
    /\ opcodes = <<>>
    /\ k = 0
    /\ output_html = <<>>
    /\ spans = <<>>
    /\ result = <<>>
    /\ LoadIdle

(***************************************************************************)
(* create_highlighted_diff, app.py 24-38.                                  *)
(***************************************************************************)
\* lines 29-30: sm = SequenceMatcher(None, text1, text2); output_html = []
\* and the evaluation of sm.get_opcodes() at the head of the for loop
MakeMatcher ==
    /\ pc = "call"
    /\ opcodes' = get_opcodes(text1, text2)
    /\ output_html' = <<>>
    /\ k' = 0
    /\ pc' = "loop"
    /\ UNCHANGED <<text1, text2, spans, result, lvars>>

\* mutant of safe_text_chunk: the chunk is not escaped
safe_text_chunk_Raw(chunk) == chunk

\* line 33
safe_text_chunk(chunk) == Escape(chunk)

\* mutant of Emitted: a replace is not emitted (elif opcode == 'insert')
Emitted_InsertOnly(t2, op) ==
    LET span(class, html) ==
            [class |-> class, text |-> Slice(t2, op.j1, op.j2), html |-> html,
             i1 |-> op.i1, i2 |-> op.i2, j1 |-> op.j1, j2 |-> op.j2]
        chunk == Escape(Slice(t2, op.j1, op.j2))
    IN  IF op.tag = "equal" THEN <<span("UNCHANGED", chunk)>>
        ELSE IF op.tag = "insert"
             THEN <<span("CHANGED", MarkOpen \o chunk \o MarkClose)>>
             ELSE <<>>

\* mutant of Emitted: every operation that is not equal is marked (else:), a
\* delete too
Emitted_MarkNonEqual(t2, op) ==
    LET span(class, html) ==
            [class |-> class, text |-> Slice(t2, op.j1, op.j2), html |-> html,
             i1 |-> op.i1, i2 |-> op.i2, j1 |-> op.j1, j2 |-> op.j2]
        chunk == Escape(Slice(t2, op.j1, op.j2))
    IN  IF op.tag = "equal" THEN <<span("UNCHANGED", chunk)>>
        ELSE <<span("CHANGED", MarkOpen \o chunk \o MarkClose)>>

\* lines 33-37: what one iteration appends to output_html (html), with the
\* class, the unescaped text text2[j1:j2] and the index ranges of the opcode it
\* comes from; nothing for a delete
Emitted(t2, op) ==
    LET span(class, html) ==
            [class |-> class, text |-> Slice(t2, op.j1, op.j2), html |-> html,
             i1 |-> op.i1, i2 |-> op.i2, j1 |-> op.j1, j2 |-> op.j2]
        chunk == safe_text_chunk(Slice(t2, op.j1, op.j2))
    IN  IF op.tag = "equal" THEN <<span("UNCHANGED", chunk)>>
        ELSE IF op.tag \in {"insert", "replace"}
             THEN <<span("CHANGED", MarkOpen \o chunk \o MarkClose)>>
             ELSE <<>>

\* lines 31-37: one iteration of the for loop
LoopStep ==
    /\ pc = "loop"
    /\ k < Len(opcodes)
    /\ LET new == Emitted(text2, opcodes[k + 1])
       IN  /\ output_html' = output_html \o [n \in 1..Len(new) |-> new[n].html]
           /\ spans' = spans \o new
    /\ k' = k + 1
    /\ UNCHANGED <<text1, text2, pc, opcodes, result, lvars>>

\* line 38: return "".join(output_html)
Return ==
    /\ pc = "loop"
    /\ k = Len(opcodes)
    /\ result' = Join(output_html)
    /\ pc' = "done"
    /\ UNCHANGED <<text1, text2, opcodes, k, output_html, spans, lvars>>

NextDiff == MakeMatcher \/ LoopStep \/ Return

SpecDiff == InitDiff /\ [][NextDiff]_vars

(***************************************************************************)
(* Reading markup back: the markers and character references the browser   *)
(* sees in a markup string.                                                *)
(***************************************************************************)
Specials == {"&", "<", ">", "\"", "'"}

StartsWith(m, p) == Len(m) >= Len(p) /\ SubSeq(m, 1, Len(p)) = p

Drop(m, n) == SubSeq(m, n + 1, Len(m))

Tok(t, c) == [t |-> t, c |-> c]

\* the tokens of a markup string: "open" for <mark>, "close" for </mark>,
\* "char" for a character reference or a plain character, and "bad" for a
\* special character that is part of neither
RECURSIVE Tokens(_, _)
Tokens(m, acc) ==
    IF m = <<>> THEN acc
    ELSE IF StartsWith(m, MarkOpen)
         THEN Tokens(Drop(m, Len(MarkOpen)), Append(acc, Tok("open", "")))
    ELSE IF StartsWith(m, MarkClose)
         THEN Tokens(Drop(m, Len(MarkClose)), Append(acc, Tok("close", "")))
    ELSE IF \E c \in Specials : StartsWith(m, EscapeChar(c))
         THEN LET c == CHOOSE x \in Specials : StartsWith(m, EscapeChar(x))
              IN  Tokens(Drop(m, Len(EscapeChar(c))), Append(acc, Tok("char", c)))
    ELSE IF Head(m) \in Specials
         THEN Tokens(Tail(m), Append(acc, Tok("bad", Head(m))))
    ELSE Tokens(Tail(m), Append(acc, Tok("char", Head(m))))

\* the text a markup string displays: its characters, markers removed
Content(toks) ==
    LET cs == SelectSeq(toks, LAMBDA x : x.t = "char")
    IN  [n \in 1..Len(cs) |-> cs[n].c]

\* the markers of a markup string, in order
Markers(toks) ==
    LET ms == SelectSeq(toks, LAMBDA x : x.t \in {"open", "close"})
    IN  [n \in 1..Len(ms) |-> ms[n].t]

\* markers are balanced and never nested: open, close, open, close, ...
Balanced(toks) ==
    LET ms == Markers(toks)
    IN  /\ Len(ms) % 2 = 0
        /\ \A n \in 1..Len(ms) : ms[n] = IF n % 2 = 1 THEN "open" ELSE "close"

WellFormed(m) ==
    LET toks == Tokens(m, <<>>)
    IN  /\ \A n \in 1..Len(toks) : toks[n].t # "bad"
        /\ Balanced(toks)

SpanTexts == [n \in 1..Len(spans) |-> spans[n].text]

ChangedCount ==
    LET cs == SelectSeq(spans, LAMBDA x : x.class = "CHANGED")
    IN  Len(Join([n \in 1..Len(cs) |-> cs[n].text]))

Unchanged == SelectSeq(spans, LAMBDA x : x.class = "UNCHANGED")

(***************************************************************************)
(* Reference notions the claims are measured against.                      *)
(***************************************************************************)
Max(x, y) == IF x >= y THEN x ELSE y

\* one row of the longest-common-subsequence table: cur holds the entries for
\* b[:0] .. b[:Len(cur) - 1] against a[:i], prev the row for a[:i - 1]
RECURSIVE LcsRow(_, _, _, _)
LcsRow(prev, ai, b, cur) ==
    IF Len(cur) > Len(b) THEN cur
    ELSE LET j == Len(cur)
         IN  LcsRow(prev, ai, b,
                    Append(cur, IF ai = b[j] THEN prev[j] + 1
                                ELSE Max(prev[j + 1], cur[j])))

RECURSIVE LcsRows(_, _, _, _)
LcsRows(a, b, i, prev) ==
    IF i > Len(a) \/ Len(prev) = 0 THEN prev
    ELSE LcsRows(a, b, i + 1, LcsRow(prev, a[i], b, <<0>>))

\* the length of a longest common subsequence of a and b
LCS(a, b) == LcsRows(a, b, 1, [n \in 1..(Len(b) + 1) |-> 0])[Len(b) + 1]

\* s is a subsequence of t
RECURSIVE IsSubsequence(_, _)
IsSubsequence(s, t) ==
    IF s = <<>> THEN TRUE
    ELSE IF t = <<>> THEN FALSE
    ELSE IF Head(s) = Head(t) THEN IsSubsequence(Tail(s), Tail(t))
    ELSE IsSubsequence(s, Tail(t))

\* the texts ts occur in t as contiguous substrings, in order, at positions
\* that do not overlap, from the 0-based position from on
RECURSIVE Embeds(_, _, _)
Embeds(ts, t, from) ==
    IF ts = <<>> THEN TRUE
    ELSE \E p \in from..(Len(t) - Len(Head(ts))) :
            /\ Slice(t, p, p + Len(Head(ts))) = Head(ts)
            /\ Embeds(Tail(ts), t, p + Len(Head(ts)))

(***************************************************************************)
(* Claims about create_highlighted_diff, checked under SpecDiff.           *)
(***************************************************************************)
Done == pc = "done"

\* C1 (Reconstruction): when create_highlighted_diff returns, the texts of the
\* chunks it emitted, in order and before escaping, concatenate to text2, and
\* the returned markup with its markers removed and its character references
\* decoded is text2.
C1_Reconstruction ==
    Done => /\ Join(SpanTexts) = text2
            /\ Content(Tokens(result, <<>>)) = text2

\* a run that emitted UNCHANGED and CHANGED chunks for a text with specials
C1_Witness ==
    /\ Done
    /\ text2 = MarkText
    /\ \E n \in 1..Len(spans) : spans[n].class = "CHANGED"
    /\ \E n \in 1..Len(spans) : spans[n].class = "UNCHANGED"
    /\ Content(Tokens(result, <<>>)) = text2

\* C2 (Minimality), as claimed: the number of characters of text2 in CHANGED
\* spans is Len(text2) minus the length of a longest common subsequence.
C2_Minimality ==
    Done => ChangedCount = Len(text2) - LCS(text1, text2)

RECURSIVE SumSizes(_)
SumSizes(blocks) ==
    IF blocks = <<>> THEN 0 ELSE Head(blocks)[3] + SumSizes(Tail(blocks))

MatchedSize == SumSizes(get_matching_blocks(text1, text2))

\* C2 as amended: the number of characters of text2 in CHANGED spans is
\* Len(text2) minus the total length of the matching blocks of the greedy
\* longest-block alignment; it is never below Len(text2) minus the length of a
\* longest common subsequence, and it is 1 for "helo world" -> "hello world".
C2_GreedyBound ==
    Done => /\ ChangedCount = Len(text2) - MatchedSize
            /\ ChangedCount >= Len(text2) - LCS(text1, text2)
            /\ (text1 = Helo /\ text2 = Hello) => ChangedCount = 1

\* the scenario of the claim has been diffed
C2_Witness ==
    Done /\ text1 = Helo /\ text2 = Hello /\ ChangedCount = 1

\* C3 (UNCHANGED soundness): at every point of the loop the UNCHANGED spans
\* emitted so far are contiguous substrings of text1 found, in output order, at
\* increasing positions that do not overlap; and a result without a CHANGED span
\* means text2 is a subsequence of text1.
C3_UnchangedSound ==
    /\ Embeds([n \in 1..Len(Unchanged) |-> Unchanged[n].text], text1, 0)
    /\ (Done /\ \A n \in 1..Len(spans) : spans[n].class # "CHANGED")
           => IsSubsequence(text2, text1)

\* two UNCHANGED spans around a CHANGED one
C3_Witness ==
    /\ Done
    /\ Len(Unchanged) >= 2
    /\ ChangedCount > 0

\* C4 (Maximal runs), as claimed: no emitted span is empty and no two
\* consecutive emitted spans carry the same class.
C4_MaximalRuns ==
    /\ \A n \in 1..Len(spans) : spans[n].text # <<>>
    /\ \A n \in 1..(Len(spans) - 1) : spans[n].class # spans[n + 1].class

AdjacentUnchanged(n) ==
    /\ n < Len(spans)
    /\ spans[n].class = "UNCHANGED"
    /\ spans[n + 1].class = "UNCHANGED"

\* C4 as amended: no emitted chunk is empty and no two consecutive chunks are
\* both CHANGED (the markup never holds an empty <mark></mark> nor </mark>
\* followed at once by <mark>); two consecutive UNCHANGED chunks are emitted
\* where, and only where, a delete operation lay between two equal operations.
C4_RunsUpToDelete ==
    /\ \A n \in 1..Len(spans) : spans[n].text # <<>> /\ spans[n].html # <<>>
    /\ \A n \in 1..(Len(spans) - 1) :
          ~(spans[n].class = "CHANGED" /\ spans[n + 1].class = "CHANGED")
    /\ \A n \in 1..(Len(spans) - 1) :
          AdjacentUnchanged(n) =>
              /\ spans[n].j2 = spans[n + 1].j1
              /\ spans[n].i2 < spans[n + 1].i1
              /\ \E d \in 1..k : /\ opcodes[d].tag = "delete"
                                 /\ opcodes[d].i1 = spans[n].i2
                                 /\ opcodes[d].i2 = spans[n + 1].i1
    /\ \A d \in 2..(k - 1) :
          (/\ opcodes[d].tag = "delete"
           /\ opcodes[d - 1].tag = "equal"
           /\ opcodes[d + 1].tag = "equal")
              => \E n \in 1..Len(spans) : /\ AdjacentUnchanged(n)
                                         /\ spans[n].i2 = opcodes[d].i1
                                         /\ spans[n + 1].i1 = opcodes[d].i2
    /\ Done => LET toks == Tokens(result, <<>>)
               IN  \A n \in 1..(Len(toks) - 1) :
                      /\ ~(toks[n].t = "close" /\ toks[n + 1].t = "open")
                      /\ ~(toks[n].t = "open" /\ toks[n + 1].t = "close")

\* a delete between two equal operations has been passed over
C4_Witness ==
    /\ Done
    /\ \E n \in 1..Len(spans) : AdjacentUnchanged(n)
    /\ \E n \in 1..Len(spans) : spans[n].class = "CHANGED"

\* C5 (Identity): diffing a text against itself yields one UNCHANGED span equal
\* to the text and markup that is the escaped text without any marker, and
\* nothing at all for the empty text.
C5_Identity ==
    (Done /\ text1 = text2) =>
        IF text2 = <<>>
        THEN spans = <<>> /\ output_html = <<>> /\ result = <<>>
        ELSE /\ Len(spans) = 1
             /\ spans[1].class = "UNCHANGED"
             /\ spans[1].text = text2
             /\ result = Escape(text2)
             /\ Markers(Tokens(result, <<>>)) = <<>>

\* a text with special characters diffed against itself
C5_Witness ==
    Done /\ text1 = text2 /\ text2 = MarkText /\ result = Escape(MarkText)

\* C6 (Total replacement): diffing the empty text against a non-empty text
\* yields one CHANGED span equal to that text and markup that is one <mark>
\* element around the escaped text; two empty texts yield no span.
C6_TotalReplacement ==
    (Done /\ text1 = <<>>) =>
        IF text2 = <<>>
        THEN spans = <<>> /\ output_html = <<>> /\ result = <<>>
        ELSE /\ Len(spans) = 1
             /\ spans[1].class = "CHANGED"
             /\ spans[1].text = text2
             /\ result = MarkOpen \o Escape(text2) \o MarkClose
             /\ Markers(Tokens(result, <<>>)) = <<"open", "close">>

\* the empty text diffed against a text with special characters
C6_Witness ==
    Done /\ text1 = <<>> /\ text2 = MarkText /\ Len(spans) = 1

\* C7 (Escaping safety): in the returned markup every < and > belongs to a
\* <mark> or </mark> marker, every & starts a character reference, the markers
\* are balanced and not nested, and what is left displays text2: the special
\* characters of text2 appear only escaped, inside and outside the markers.
C7_EscapingSafety ==
    Done => /\ WellFormed(result)
            /\ Content(Tokens(result, <<>>)) = text2
            /\ \A n \in 1..Len(spans) :
                  LET toks == Tokens(spans[n].html, <<>>)
                  IN  /\ Content(toks) = spans[n].text
                      /\ Markers(toks) = IF spans[n].class = "CHANGED"
                                         THEN <<"open", "close">> ELSE <<>>

\* special characters were emitted both inside and outside a marker
C7_Witness ==
    /\ Done
    /\ \E n \in 1..Len(spans) :
          /\ spans[n].class = "CHANGED"
          /\ \E x \in 1..Len(spans[n].text) : spans[n].text[x] \in Specials
    /\ \E n \in 1..Len(spans) :
          /\ spans[n].class = "UNCHANGED"
          /\ \E x \in 1..Len(spans[n].text) : spans[n].text[x] \in Specials

(***************************************************************************)
(* Language mappings, app.py 15-21.                                        *)
(***************************************************************************)
LANG_CODE_TO_FOLDER ==
    (<<"b", "n">> :> "Bengali") @@ (<<"e", "n">> :> "English") @@
    (<<"g", "u">> :> "Gujarati") @@ (<<"h", "i">> :> "Hindi") @@
    (<<"k", "n">> :> "Kannada") @@ (<<"m", "l">> :> "Malayalam") @@
    (<<"m", "r">> :> "Marathi") @@ (<<"o", "r">> :> "Odia") @@
    (<<"p", "a">> :> "Punjabi") @@ (<<"t", "a">> :> "Tamil") @@
    (<<"t", "e">> :> "Telugu")

FOLDER_TO_LANG_CODE ==
    [f \in {LANG_CODE_TO_FOLDER[c] : c \in DOMAIN LANG_CODE_TO_FOLDER} |->
        CHOOSE c \in DOMAIN LANG_CODE_TO_FOLDER : LANG_CODE_TO_FOLDER[c] = f]

\* the options of the sidebar selector (their order plays no part here)
AVAILABLE_LANGUAGES == DOMAIN FOLDER_TO_LANG_CODE

(***************************************************************************)
(* Inputs of load_data: the two files.                                     *)
(***************************************************************************)
MaxEntries == 3

NameTe1 == <<"x", "_", "t", "e", "_", "1">>
NameTe2 == <<"x", "_", "t", "e", "_", "2">>
NameEn == <<"_", "e", "n">>
NameZz == <<"x", "_", "z", "z", "_", "1">>
NameNoToken == <<"x", "t", "e">>
NameEmpty == <<>>
NameEmptyCode == <<"x", "_">>

ImageNames ==
    {NameTe1, NameTe2, NameEn, NameZz, NameNoToken, NameEmpty, NameEmptyCode}

RECURSIVE ListsUpTo(_, _)
ListsUpTo(S, n) ==
    IF n = 0 THEN {<<>>}
    ELSE LET L == ListsUpTo(S, n - 1)
         IN  L \cup {Append(l, x) : l \in {m \in L : Len(m) = n - 1}, x \in S}

\* a row of the CSV: its image_name and corr_mod columns
Row(n, m) == [image_name |-> n, corr_mod |-> m]

CsvTables ==
    { <<>>,
      <<Row(NameTe1, "fixed")>>,
      <<Row(NameTe1, "fixed"), Row(NameEn, "none"), Row(NameNoToken, "none")>>,
      <<Row(NameTe2, "first"), Row(NameTe2, "last")>> }

JsonFiles == {NoFile} \cup {[present |-> TRUE, rows |-> l] : l \in ListsUpTo(ImageNames, MaxEntries)}
CsvFiles == {NoFile} \cup {[present |-> TRUE, rows |-> t] : t \in CsvTables}

DiffIdle ==
    /\ text1 = <<>>
    /\ text2 = <<>>
    /\ pc = "idle"
    /\ opcodes = <<>>
    /\ k = 0
    /\ output_html = <<>>
    /\ spans = <<>>
    /\ result = <<>>

InitLoad ==
    /\ json_file \in JsonFiles
    /\ csv_file \in CsvFiles
    /\ lpc = "open_json"
    /\ idx = 0
    /\ corr_mod_map = <<>>
    /\ data_by_lang = <<>>
    /\ all_data = Unset
    /\ selected = NoSelection
    /\ log = <<>>
    /\ DiffIdle

(***************************************************************************)
(* load_data, app.py 42-68.                                                *)
(***************************************************************************)
Msg(kind, name) == [kind |-> kind, name |-> name]

\* str.split('_'): cur is the token being read, acc the tokens read so far
RECURSIVE SplitFrom(_, _, _)
SplitFrom(s, cur, acc) ==
    IF s = <<>> THEN Append(acc, cur)
    ELSE IF Head(s) = "_" THEN SplitFrom(Tail(s), <<>>, Append(acc, cur))
    ELSE SplitFrom(Tail(s), Append(cur, Head(s)), acc)

Split(s) == SplitFrom(s, <<>>, <<>>)

\* line 53: pd.Series(corr_mod values, index=image_name).to_dict(); a later row
\* with the same image_name replaces an earlier one
RECURSIVE SeriesToDict(_, _)
SeriesToDict(rows, d) ==
    IF rows = <<>> THEN d
    ELSE SeriesToDict(Tail(rows), DictSet(d, Head(rows).image_name, Head(rows).corr_mod))

\* lines 44-49
OpenJson ==
    /\ lpc = "open_json"
    /\ IF json_file.present
       THEN /\ lpc' = "open_csv"
            /\ UNCHANGED <<log, all_data>>
       ELSE /\ log' = Append(log, Msg("error_json", <<>>))
            /\ all_data' = [set |-> TRUE, none |-> TRUE, dict |-> <<>>]
            /\ lpc' = "loaded"
    /\ UNCHANGED <<json_file, csv_file, idx, corr_mod_map, data_by_lang, selected, dvars>>

\* lines 51-58
OpenCsv ==
    /\ lpc = "open_csv"
    /\ IF csv_file.present
       THEN /\ corr_mod_map' = SeriesToDict(csv_file.rows, <<>>)
            /\ UNCHANGED log
       ELSE /\ log' = Append(log, Msg("warning_csv", <<>>))
            /\ corr_mod_map' = <<>>
    /\ data_by_lang' = <<>>
    /\ idx' = 0
    /\ lpc' = "items"
    /\ UNCHANGED <<json_file, csv_file, all_data, selected, dvars>>

\* mutant of Item: corr_mod_map.get(name) without the default
Item_NoDefault(name, pos) ==
    [image_name |-> name, pos |-> pos, corr_mod |-> DictGet(corr_mod_map, name, "None")]

\* line 62 and line 65: the item as it is appended; pos is the item's place in
\* json_data (the identity of the dict object)
Item(name, pos) ==
    [image_name |-> name, pos |-> pos, corr_mod |-> DictGet(corr_mod_map, name, "N/A")]

\* mutant of LoadItem: the try encloses the loop, so the first malformed
\* image_name ends it
LoadItem_StopOnMalformed ==
    /\ lpc = "items"
    /\ idx < Len(json_file.rows)
    /\ LET name == json_file.rows[idx + 1]
           tokens == Split(name)
       IN  IF Len(tokens) < 2
           THEN /\ log' = Append(log, Msg("warning_skip", name))
                /\ idx' = Len(json_file.rows)
                /\ UNCHANGED data_by_lang
           ELSE LET lang_code == tokens[2]
                    d == IF lang_code \notin DOMAIN data_by_lang
                         THEN DictSet(data_by_lang, lang_code, <<>>)
                         ELSE data_by_lang
                IN  /\ data_by_lang' =
                           DictSet(d, lang_code, Append(d[lang_code], Item(name, idx + 1)))
                    /\ idx' = idx + 1
                    /\ UNCHANGED log
    /\ UNCHANGED <<json_file, csv_file, lpc, corr_mod_map, all_data, selected, dvars>>

\* lines 59-67: one iteration of the loop over json_data
LoadItem ==
    /\ lpc = "items"
    /\ idx < Len(json_file.rows)
    /\ LET name == json_file.rows[idx + 1]
           tokens == Split(name)
       IN  IF Len(tokens) < 2
           THEN /\ log' = Append(log, Msg("warning_skip", name))
                /\ UNCHANGED data_by_lang
           ELSE LET lang_code == tokens[2]
                    d == IF lang_code \notin DOMAIN data_by_lang
                         THEN DictSet(data_by_lang, lang_code, <<>>)
                         ELSE data_by_lang
                IN  /\ data_by_lang' =
                           DictSet(d, lang_code, Append(d[lang_code], Item(name, idx + 1)))
                    /\ UNCHANGED log
    /\ idx' = idx + 1
    /\ UNCHANGED <<json_file, csv_file, lpc, corr_mod_map, all_data, selected, dvars>>

\* line 68
LoadReturn ==
    /\ lpc = "items"
    /\ idx = Len(json_file.rows)
    /\ all_data' = [set |-> TRUE, none |-> FALSE, dict |-> data_by_lang]
    /\ lpc' = "loaded"
    /\ UNCHANGED <<json_file, csv_file, idx, corr_mod_map, data_by_lang, selected, log, dvars>>

(***************************************************************************)
(* main, app.py 97-108 and 147-148: from the return of load_data to the    *)
(* record selector or the message shown in its place.                      *)
(***************************************************************************)
\* "not all_data": None and the empty dict are both false
Falsy(v) == v.none \/ DOMAIN v.dict = {}

\* lines 98-99
CheckLoaded ==
    /\ lpc = "loaded"
    /\ lpc' = IF Falsy(all_data) THEN "done" ELSE "sidebar"
    /\ UNCHANGED <<json_file, csv_file, idx, corr_mod_map, data_by_lang, all_data,
                   selected, log, dvars>>

\* lines 101-103
SelectLanguage ==
    /\ lpc = "sidebar"
    /\ \E selected_language_folder \in AVAILABLE_LANGUAGES :
           selected' = [set |-> TRUE, code |-> FOLDER_TO_LANG_CODE[selected_language_folder]]
    /\ lpc' = "lookup"
    /\ UNCHANGED <<json_file, csv_file, idx, corr_mod_map, data_by_lang, all_data,
                   log, dvars>>

\* lines 105-108 and 147-148
ShowRecords ==
    /\ lpc = "lookup"
    /\ IF selected.code \in DOMAIN all_data.dict
       THEN log' = Append(log, Msg("selectbox", selected.code))
       ELSE log' = Append(log, Msg("warning_no_data", selected.code))
    /\ lpc' = "done"
    /\ UNCHANGED <<json_file, csv_file, idx, corr_mod_map, data_by_lang, all_data,
                   selected, dvars>>

NextLoad ==
    OpenJson \/ OpenCsv \/ LoadItem \/ LoadReturn \/ CheckLoaded \/ SelectLanguage \/ ShowRecords

SpecLoad == InitLoad /\ [][NextLoad]_vars

(***************************************************************************)
(* Claims about load_data and main, checked under SpecLoad.                *)
(***************************************************************************)
Loaded == all_data.set /\ ~all_data.none

\* the messages of one kind about one name
Shown(kind, name) == {n \in 1..Len(log) : log[n].kind = kind /\ log[n].name = name}

NoRecords(code) ==
    code \notin DOMAIN all_data.dict \/ all_data.dict[code] = <<>>

\* C8 (Empty-state), as claimed: when main has run on a loaded record set and
\* the language of the selector has no record, the message "No data found" for
\* that language is shown; in particular, when no supported language has a
\* record, some such message is shown.
C8_EmptyState ==
    (lpc = "done" /\ Loaded) =>
        /\ (selected.set /\ NoRecords(selected.code))
               => Shown("warning_no_data", selected.code) # {}
        /\ (\A code \in DOMAIN LANG_CODE_TO_FOLDER : NoRecords(code))
               => \E code \in DOMAIN LANG_CODE_TO_FOLDER :
                      Shown("warning_no_data", code) # {}

\* every record load_data has put into data_by_lang, as <<code, place>>
Places ==
    UNION {{<<code, n>> : n \in 1..Len(data_by_lang[code])} : code \in DOMAIN data_by_lang}

RecordAt(pl) == data_by_lang[pl[1]][pl[2]]

CsvNames == {csv_file.rows[n].image_name : n \in 1..Len(csv_file.rows)}

\* C9 (Missing auxiliary source): with the primary source present and the
\* auxiliary one absent, load_data returns the mapping, shows one warning and no
\* error, and every loaded record has corr_mod "N/A"; and whatever the
\* auxiliary source, a record whose image_name has no row in it has "N/A".
C9_MissingAuxiliary ==
    (all_data.set /\ json_file.present) =>
        /\ ~csv_file.present =>
              /\ ~all_data.none
              /\ all_data.dict = data_by_lang
              /\ Cardinality(Shown("warning_csv", <<>>)) = 1
              /\ Shown("error_json", <<>>) = {}
              /\ \A pl \in Places : RecordAt(pl).corr_mod = "N/A"
        /\ \A pl \in Places :
              RecordAt(pl).image_name \notin CsvNames => RecordAt(pl).corr_mod = "N/A"

\* a load without the auxiliary source that put two records in the mapping
C9_Witness ==
    /\ lpc = "done"
    /\ json_file.present
    /\ ~csv_file.present
    /\ Cardinality(Places) >= 2
    /\ \A pl \in Places : RecordAt(pl).corr_mod = "N/A"

Malformed(name) == Len(Split(name)) < 2

\* C10 (Malformed identifier): of the entries the loop has consumed, each
\* malformed one is in no language's sequence and the skip warnings shown for
\* an image_name are as many as the malformed entries with it (one each);
\* each other one is exactly once in the mapping, in the sequence keyed by the
\* second token of its image_name, and every sequence is in source order.
C10_MalformedSkipped ==
    /\ \A p \in 1..idx :
          LET name == json_file.rows[p]
              at == {pl \in Places : RecordAt(pl).pos = p}
          IN  IF Malformed(name)
              THEN /\ at = {}
                   /\ Cardinality(Shown("warning_skip", name)) =
                         Cardinality({q \in 1..idx : json_file.rows[q] = name})
              ELSE /\ Cardinality(at) = 1
                   /\ \A pl \in at : /\ pl[1] = Split(name)[2]
                                     /\ RecordAt(pl).image_name = name
    /\ \A pl \in Places : RecordAt(pl).pos \in 1..idx
    /\ \A code \in DOMAIN data_by_lang :
          \A n \in 1..(Len(data_by_lang[code]) - 1) :
              data_by_lang[code][n].pos < data_by_lang[code][n + 1].pos
    /\ Cardinality({n \in 1..Len(log) : log[n].kind = "warning_skip"}) =
          Cardinality({p \in 1..idx : Malformed(json_file.rows[p])})

\* a malformed entry between two entries of one language, all three consumed
C10_Witness ==
    /\ Loaded
    /\ Len(json_file.rows) >= 3
    /\ \E p \in 2..(Len(json_file.rows) - 1) :
          /\ Malformed(json_file.rows[p])
          /\ ~Malformed(json_file.rows[p - 1])
          /\ ~Malformed(json_file.rows[p + 1])
          /\ Split(json_file.rows[p - 1])[2] = Split(json_file.rows[p + 1])[2]
          /\ Len(data_by_lang[Split(json_file.rows[p + 1])[2]]) >= 2

====
